---- MODULE Spec2Model ----
(* Ledger state machine of the Cartesi node back end.  The repository holds  *)
(* three iterations of the same program, each with its own ledger:           *)
(*   "index"    src/src/index.js        binary deposits only                 *)
(*   "part_000" src/unnamed/part_000    binary deposits + JSON settle        *)
(*   "part_001" src/unnamed/part_001    JSON deposit / transfer actions      *)
(* A run is one process of one iteration; `variant` says which.              *)
EXTENDS Integers, Sequences, FiniteSets, TLC

VARIABLES variant, balances, prev, req, outs, status, hostFailed, nInputs,
          pc, resultStatus, sent, lost

vars == <<variant, balances, prev, req, outs, status, hostFailed, nInputs,
          pc, resultStatus, sent, lost>>

(***************************************************************************)
(* Bounds of the model                                                     *)
(***************************************************************************)
MaxInputs == 3      \* inputs handled in one run
MaxByte == 1        \* amount bytes range over 0..MaxByte
MaxAmtLen == 2      \* significant amount bytes of a binary payload
MaxJsonAmt == 2     \* numeric JSON amounts range over -MaxJsonNeg..MaxJsonAmt
MaxJsonNeg == 1
MaxCalls == 3       \* host calls of one handling that may throw
MaxLiveInputs == 2  \* inputs handled in one run of LiveSpec

(***************************************************************************)
(* Program constants                                                       *)
(***************************************************************************)
ADDRESS_BYTES == 20
DEPOSIT_BYTES == 52
BYTE_BASE == 256

Variants == {"index", "part_000", "part_001"}

(***************************************************************************)
(* Addresses.  Addr are the 20-byte values; each has a checksummed text    *)
(* form and a lower-case text form.  "zz" is a string that is no address.  *)
(***************************************************************************)
Addr == {"a1", "a2"}

Undefined == "undefined"

Checksummed(a) == IF a = "a1" THEN "0xA1" ELSE "0xA2"

Lowercase(a) == IF a = "a1" THEN "0xa1" ELSE "0xa2"

\* ethers.hexlify of the 20 address bytes: lower-case hex text
hexlify(a) == Lowercase(a)

AddrTexts == {Checksummed(a) : a \in Addr} \cup {Lowercase(a) : a \in Addr}

isAddress(s) == s \in AddrTexts

\* viem getAddress: checksummed form of any-case address text; throws otherwise
getAddress(s) == CHOOSE c \in {Checksummed(a) : a \in Addr} :
                    \E a \in Addr : c = Checksummed(a) /\ s \in {Checksummed(a), Lowercase(a)}

Strs == AddrTexts \cup {"zz"}

(***************************************************************************)
(* Ledger: a JS object, i.e. a function whose domain is the set of keys    *)
(* created so far.                                                         *)
(***************************************************************************)
EmptyLedger == [k \in {} |-> 0]

\* The Number NaN, which Number(amount) yields for a JSON amount that is not
\* numeric text.  It is represented by an integer no sum of amounts reaches;
\* the operators below give it the arithmetic of the language.
NaN == 0 - 1000

\* x + y and x - y on Numbers
NumAdd(x, y) == IF x = NaN \/ y = NaN THEN NaN ELSE x + y

NumSub(x, y) == IF x = NaN \/ y = NaN THEN NaN ELSE x - y

\* x < y on Numbers: false when either side is NaN
NumLess(x, y) == x # NaN /\ y # NaN /\ x < y

Has(b, k) == k \in DOMAIN b

\* balances[k] || 0
Get(b, k) == IF Has(b, k) /\ b[k] # NaN THEN b[k] ELSE 0

\* !balances[k] : key absent, or value 0 or NaN
Falsy(b, k) == ~Has(b, k) \/ b[k] = 0 \/ b[k] = NaN

Put(b, k, v) == [x \in (DOMAIN b) \cup {k} |-> IF x = k THEN v ELSE b[x]]

(***************************************************************************)
(* JSON.parse results.  t is the kind of value ("notjson": the text does   *)
(* not parse); the other fields are the properties the handlers read, an   *)
(* absent (or falsy) string property being Undefined and an absent (or     *)
(* null) amount the empty sequence.                                        *)
(***************************************************************************)
JsonBlank(t) == [t |-> t, action |-> Undefined, win |-> Undefined, loss |-> Undefined,
                 sender |-> Undefined, from |-> Undefined, to |-> Undefined,
                 user |-> Undefined, amount |-> <<>>]

NotJson == JsonBlank("notjson")

FieldStrs == {"0xA1", "0xa1", "0xA2", "zz", Undefined}

AcctStrs == {"0xA1", "0xA2", Undefined}

JsonAmts == {<<>>, <<NaN>>} \cup {<<n>> : n \in (0 - MaxJsonNeg)..MaxJsonAmt}

JsonPrimitives == {JsonBlank(t) : t \in {"null", "num", "arr"}}

JsonSettles == {[JsonBlank("obj") EXCEPT !.win = w, !.loss = l] :
                   w \in FieldStrs, l \in FieldStrs}

JsonDeposits == {[JsonBlank("obj") EXCEPT !.action = "deposit", !.sender = s, !.amount = n] :
                   s \in AcctStrs, n \in JsonAmts}

JsonTransfers == {[JsonBlank("obj") EXCEPT !.action = "transfer", !.from = f, !.to = g,
                                           !.amount = n] :
                   f \in AcctStrs, g \in AcctStrs, n \in JsonAmts}

JsonQueries == {[JsonBlank("obj") EXCEPT !.action = "balance", !.user = u] :
                   u \in {"0xA1", "0xa1", Undefined}}

JsonOthers == {JsonBlank("obj"), [JsonBlank("obj") EXCEPT !.action = "other"]}

\* one action of each shape, for the variants that do not know the shape
JsonSamples == {[JsonBlank("obj") EXCEPT !.win = "0xA1", !.loss = "0xA2"],
                [JsonBlank("obj") EXCEPT !.action = "deposit", !.sender = "0xA1", !.amount = <<1>>],
                [JsonBlank("obj") EXCEPT !.action = "transfer", !.from = "0xA1", !.to = "0xA2",
                                         !.amount = <<1>>]}

(***************************************************************************)
(* Payloads.  A payload is a byte string; the model keeps what the code    *)
(* reads of it: its JSON reading (json), its length in bytes (len), the    *)
(* value of bytes [0,20) (addr, meaningful when len >= 20) and the bytes   *)
(* of [20, min(len,52)) after its leading zero bytes (amt).                *)
(***************************************************************************)
Bytes == 0..MaxByte

Min(a, b) == IF a < b THEN a ELSE b

RECURSIVE SeqsUpTo(_)
SeqsUpTo(n) == IF n = 0 THEN {<<>>}
               ELSE SeqsUpTo(n - 1) \cup
                    {Append(q, x) : q \in {r \in SeqsUpTo(n - 1) : Len(r) = n - 1}, x \in Bytes}

\* number of bytes in the slice [20, 52) of a payload of len bytes
AmountSliceLen(len) == IF len <= ADDRESS_BYTES THEN 0 ELSE Min(len, DEPOSIT_BYTES) - ADDRESS_BYTES

AmtSeqs(len) == {q \in SeqsUpTo(Min(MaxAmtLen, AmountSliceLen(len))) : q = <<>> \/ q[1] # 0}

BinaryLens == {0, 20, 51, 52, 53}

\* the fields a byte string of that length can have
WellFormed(p) == /\ p.amt \in AmtSeqs(p.len)
                 /\ (p.len < ADDRESS_BYTES => p.addr = "a1")

BinaryPayloads == {p \in {[json |-> NotJson, len |-> n, addr |-> a, amt |-> q] :
                            n \in BinaryLens, a \in Addr, q \in SeqsUpTo(MaxAmtLen)} :
                      WellFormed(p)}

\* JSON text that is not an object: short (4 bytes) or long enough for a deposit record
PrimitivePayloads == {p \in {[json |-> j, len |-> n, addr |-> "a1", amt |-> q] :
                               j \in JsonPrimitives, n \in {4, 52}, q \in {<<>>, <<1>>}} :
                         WellFormed(p)}

\* the text of a JSON object is longer than a deposit record
ObjectPayloads(js) == {[json |-> j, len |-> 60, addr |-> "a2", amt |-> <<1>>] : j \in js}

\* The payloads a run is fed.  Every variant gets payloads of every kind; the
\* shapes a variant tells apart are enumerated in full, the others by sample.
AdvancePayloads(v) ==
    CASE v = "index" ->
           BinaryPayloads \cup {p \in PrimitivePayloads : p.json.t = "num"}
             \cup ObjectPayloads(JsonSamples)
      [] v = "part_000" ->
           BinaryPayloads \cup PrimitivePayloads
             \cup ObjectPayloads(JsonSettles \cup JsonOthers \cup JsonSamples)
      [] OTHER ->
           {p \in BinaryPayloads : p.len = 52 /\ p.amt = <<1>>}
             \cup {p \in PrimitivePayloads : p.len = 4}
             \cup ObjectPayloads(JsonDeposits \cup JsonTransfers \cup JsonOthers \cup JsonSamples)

InspectPayloads == ObjectPayloads(JsonQueries \cup JsonOthers) \cup
                   {p \in PrimitivePayloads : p.len = 4} \cup
                   {p \in BinaryPayloads : p.len = 52 /\ p.amt = <<1>> /\ p.addr = "a1"}

Requests(v) == {[type |-> "advance_state", payload |-> p] : p \in AdvancePayloads(v)} \cup
               {[type |-> "inspect_state", payload |-> p] : p \in InspectPayloads} \cup
               {[type |-> "other_state", payload |-> p] :
                   p \in {q \in BinaryPayloads : q.len = 52 /\ q.amt = <<1>> /\ q.addr = "a1"}}

\* the same sets, tabulated once
RequestsOf == [v \in Variants |-> Requests(v)]

NoRequest == [type |-> "none", payload |-> [json |-> NotJson, len |-> 0, addr |-> "a1", amt |-> <<>>]]

(***************************************************************************)
(* Codec                                                                   *)
(***************************************************************************)
\* BigInt(hexlify(bytes)) of a non-empty byte string: its big-endian value
RECURSIVE BigEndian(_)
BigEndian(q) == IF q = <<>> THEN 0
                ELSE BigEndian(SubSeq(q, 1, Len(q) - 1)) * BYTE_BASE + q[Len(q)]

\* toBeHex writing the bytes least significant first
RECURSIVE toBeHex_LittleEndian(_)
toBeHex_LittleEndian(n) ==
    IF n = 0 THEN <<>> ELSE <<n % BYTE_BASE>> \o toBeHex_LittleEndian(n \div BYTE_BASE)

\* ethers.toBeHex(amount, 32): the big-endian bytes of amount (leading zero bytes left out)
RECURSIVE toBeHex(_)
toBeHex(n) == IF n = 0 THEN <<>> ELSE Append(toBeHex(n \div BYTE_BASE), n % BYTE_BASE)

(***************************************************************************)
(* Event emitter.  An event is what the host receives.                     *)
(***************************************************************************)
Event(kind, tag, x, y, n, payload) ==
    [kind |-> kind, tag |-> tag, x |-> x, y |-> y, n |-> n, payload |-> payload]

sendNotice(tag, x, y, n) == Event("notice", tag, x, y, n, <<>>)

sendReport(tag, x, y, n) == Event("report", tag, x, y, n, <<>>)

generateVoucher(recipient, amount) == Event("voucher", "", recipient, "", 0, toBeHex(amount))

(***************************************************************************)
(* Execution of a handler body.  A body is a sequence of steps: a host     *)
(* call (an await fetch, which throws when the host cannot be reached),    *)
(* an assignment to the ledger, or a throw.  fails is the set of host      *)
(* calls of this handling, counted from 1, that throw.                     *)
(***************************************************************************)
Call(ev) == [op |-> "call", ev |-> ev, bal |-> EmptyLedger, err |-> ""]

Assign(b) == [op |-> "set", ev |-> sendReport("", "", "", 0), bal |-> b, err |-> ""]

Throw(e) == [op |-> "throw", ev |-> sendReport("", "", "", 0), bal |-> EmptyLedger, err |-> e]

Start(b) == [bal |-> b, outs |-> <<>>, calls |-> 0, exc |-> "", failed |-> FALSE]

RECURSIVE Exec(_, _, _)
Exec(steps, st, fails) ==
    IF steps = <<>> \/ st.exc # "" THEN st
    ELSE LET s == Head(steps) IN
         CASE s.op = "call" ->
                IF (st.calls + 1) \in fails
                THEN Exec(Tail(steps), [st EXCEPT !.calls = @ + 1, !.exc = "fetch failed",
                                                  !.failed = TRUE], fails)
                ELSE Exec(Tail(steps), [st EXCEPT !.calls = @ + 1,
                                                  !.outs = Append(@, s.ev)], fails)
           [] s.op = "set" -> Exec(Tail(steps), [st EXCEPT !.bal = s.bal], fails)
           [] OTHER -> Exec(Tail(steps), [st EXCEPT !.exc = s.err], fails)

Outcome(b, o, st, f) == [bal |-> b, outs |-> o, status |-> st, failed |-> f]

\* a handler without the catch block: the exception leaves the handler
TryCatchReport_NoCatch(b, steps, fails) ==
    LET st == Exec(steps, Start(b), fails) IN
    IF st.exc = "" THEN Outcome(st.bal, st.outs, "accept", st.failed)
    ELSE Outcome(st.bal, st.outs, "throw", st.failed)

\* try { body; return "accept" } catch (err) { await sendReport(`Error: ...`); return "reject" }
\* status "throw": the catch block's own sendReport threw, the handler's promise rejects
TryCatchReport(b, steps, fails) ==
    LET st == Exec(steps, Start(b), fails) IN
    IF st.exc = "" THEN Outcome(st.bal, st.outs, "accept", st.failed)
    ELSE IF (st.calls + 1) \in fails THEN Outcome(st.bal, st.outs, "throw", TRUE)
    ELSE Outcome(st.bal, Append(st.outs, sendReport("Error", "", st.exc, 0)), "reject", st.failed)

\* try { body; return "accept" } catch (err) { return "reject" }
TryCatchSilent(b, steps, fails) ==
    LET st == Exec(steps, Start(b), fails) IN
    Outcome(st.bal, st.outs, IF st.exc = "" THEN "accept" ELSE "reject", st.failed)

(***************************************************************************)
(* Binary deposit variants: index.js and part_000                          *)
(***************************************************************************)
Parsed(r, n) == [ok |-> TRUE, recipient |-> r, amount |-> n, err |-> ""]

ParseError(e) == [ok |-> FALSE, recipient |-> "", amount |-> 0, err |-> e]

\* index.js: slices first, checks only that 20 address bytes were there
index_parseDepositPayload(p) ==
    IF Min(p.len, ADDRESS_BYTES) # ADDRESS_BYTES
    THEN ParseError("Error parsing deposit payload: Invalid deposit payload: Address extraction failed.")
    ELSE IF AmountSliceLen(p.len) = 0
    THEN ParseError("Error parsing deposit payload: Cannot convert 0x to a BigInt")
    ELSE Parsed(getAddress(hexlify(p.addr)), BigEndian(p.amt))

\* part_000: rejects anything shorter than 52 bytes before slicing
p0_parseDepositPayload(p) ==
    IF p.len < DEPOSIT_BYTES
    THEN ParseError("Error parsing deposit payload: Payload too short for a deposit.")
    ELSE Parsed(getAddress(hexlify(p.addr)), BigEndian(p.amt))

\* processDeposit storing the amount instead of adding it
processDeposit_Overwrite(b, recipient, amount) ==
    LET b1 == IF Falsy(b, recipient) THEN Put(b, recipient, 0) ELSE b
    IN  Put(b1, recipient, amount)

\* processDeposit(recipient, amount) of index.js and part_000 (BigInt balances)
\* (its `!recipient || amount == null` guard never fires: parseDepositPayload returns
\* a non-empty address text and a BigInt)
processDeposit(b, recipient, amount) ==
    LET b1 == IF Falsy(b, recipient) THEN Put(b, recipient, 0) ELSE b
    IN  Put(b1, recipient, b1[recipient] + amount)

\* the deposit branch: parse, credit, notice
DepositSteps(b, parsed) ==
    IF ~parsed.ok THEN <<Throw(parsed.err)>>
    ELSE LET b2 == processDeposit(b, parsed.recipient, parsed.amount)
         IN  <<Assign(b2), Call(sendNotice("Deposit OK", parsed.recipient, "", b2[parsed.recipient]))>>

index_handleAdvance(b, p, fails) ==
    TryCatchReport(b, DepositSteps(b, index_parseDepositPayload(p)), fails)

\* isJson && parsed && typeof parsed === "object"
IsJsonObject(j) == j.t \in {"obj", "arr"}

\* settle that also credits the winner inside the ledger
SettleSteps_CreditWinner(b, j) ==
    IF ~isAddress(j.win) \/ ~isAddress(j.loss) THEN <<Throw("Address is invalid")>>
    ELSE LET winner == getAddress(j.win)
             loser == getAddress(j.loss)
             loserBalance == Get(b, loser)
         IN  IF loserBalance > 0
             THEN <<Call(generateVoucher(winner, loserBalance)),
                    Assign(Put(Put(b, loser, 0), winner, Get(Put(b, loser, 0), winner) + loserBalance)),
                    Call(sendNotice("Voucher issued", winner, "", loserBalance))>>
             ELSE <<Call(sendReport("Loser has no balance to transfer", loser, "", 0))>>

\* settle whose test is loserBalance >= 0
SettleSteps_ZeroVoucher(b, j) ==
    IF ~isAddress(j.win) \/ ~isAddress(j.loss) THEN <<Throw("Address is invalid")>>
    ELSE LET winner == getAddress(j.win)
             loser == getAddress(j.loss)
             loserBalance == Get(b, loser)
         IN  IF loserBalance >= 0
             THEN <<Call(generateVoucher(winner, loserBalance)),
                    Assign(Put(b, loser, 0)),
                    Call(sendNotice("Voucher issued", winner, "", loserBalance))>>
             ELSE <<Call(sendReport("Loser has no balance to transfer", loser, "", 0))>>

\* settle announcing the voucher before sending it
SettleSteps_NoticeFirst(b, j) ==
    IF ~isAddress(j.win) \/ ~isAddress(j.loss) THEN <<Throw("Address is invalid")>>
    ELSE LET winner == getAddress(j.win)
             loser == getAddress(j.loss)
             loserBalance == Get(b, loser)
         IN  IF loserBalance > 0
             THEN <<Call(sendNotice("Voucher issued", winner, "", loserBalance)),
                    Call(generateVoucher(winner, loserBalance)),
                    Assign(Put(b, loser, 0))>>
             ELSE <<Call(sendReport("Loser has no balance to transfer", loser, "", 0))>>

\* settle that sends the voucher and leaves the loser's balance in the ledger
SettleSteps_KeepLoser(b, j) ==
    IF ~isAddress(j.win) \/ ~isAddress(j.loss) THEN <<Throw("Address is invalid")>>
    ELSE LET winner == getAddress(j.win)
             loser == getAddress(j.loss)
             loserBalance == Get(b, loser)
         IN  IF loserBalance > 0
             THEN <<Call(generateVoucher(winner, loserBalance)),
                    Call(sendNotice("Voucher issued", winner, "", loserBalance))>>
             ELSE <<Call(sendReport("Loser has no balance to transfer", loser, "", 0))>>

SettleSteps(b, j) ==
    IF ~isAddress(j.win) \/ ~isAddress(j.loss) THEN <<Throw("Address is invalid")>>
    ELSE LET winner == getAddress(j.win)
             loser == getAddress(j.loss)
             loserBalance == Get(b, loser)
         IN  IF loserBalance > 0
             THEN <<Call(generateVoucher(winner, loserBalance)),
                    Assign(Put(b, loser, 0)),
                    Call(sendNotice("Voucher issued", winner, "", loserBalance))>>
             ELSE <<Call(sendReport("Loser has no balance to transfer", loser, "", 0))>>

p0_AdvanceSteps(b, p) ==
    IF IsJsonObject(p.json)
    THEN IF p.json.win # Undefined /\ p.json.loss # Undefined
         THEN SettleSteps(b, p.json)
         ELSE <<Call(sendReport("Unrecognized JSON structure", "", "", 0))>>
    ELSE DepositSteps(b, p0_parseDepositPayload(p))

p0_handleAdvance(b, p, fails) == TryCatchReport(b, p0_AdvanceSteps(b, p), fails)

\* handleInspect defaulting the queried balance into the ledger
InspectSteps_CreateKey(b, j, suffix) ==
    IF j.t = "notjson" THEN <<Throw("Unexpected token in JSON")>>
    ELSE IF j.t = "null" THEN <<Throw("Cannot read properties of null")>>
    ELSE IF j.action = "balance" /\ j.user # Undefined
    THEN <<Assign(Put(b, j.user, Get(b, j.user))),
           Call(sendReport("Balance of", j.user, suffix, Get(b, j.user)))>>
    ELSE <<>>

\* handleInspect of index.js and part_000
InspectSteps(b, j, suffix) ==
    IF j.t = "notjson" THEN <<Throw("Unexpected token in JSON")>>
    ELSE IF j.t = "null" THEN <<Throw("Cannot read properties of null")>>
    ELSE IF j.action = "balance" /\ j.user # Undefined
    THEN <<Call(sendReport("Balance of", j.user, suffix, Get(b, j.user)))>>
    ELSE <<>>

p0_handleInspect(b, p, fails) == TryCatchReport(b, InspectSteps(b, p.json, "wei"), fails)

index_handleInspect(b, p, fails) == TryCatchReport(b, InspectSteps(b, p.json, "wei"), fails)

(***************************************************************************)
(* JSON action variant: part_001 (Number balances)                         *)
(***************************************************************************)
p1_processDeposit(b, parsed) ==
    IF parsed.sender = Undefined \/ parsed.amount = <<>>
    THEN <<Throw("Missing 'sender' or 'amount' in deposit input")>>
    ELSE LET b1 == IF Falsy(b, parsed.sender) THEN Put(b, parsed.sender, 0) ELSE b
             b2 == Put(b1, parsed.sender, NumAdd(b1[parsed.sender], parsed.amount[1]))
         IN  <<Assign(b2), Call(sendNotice("Deposit OK", parsed.sender, "", b2[parsed.sender]))>>

\* processTransfer debiting 'from' before the balance check
p1_processTransfer_DebitFirst(b, parsed) ==
    IF parsed.from = Undefined \/ parsed.to = Undefined \/ parsed.amount = <<>>
    THEN <<Throw("Missing 'from', 'to' or 'amount' in transfer input")>>
    ELSE LET amount == parsed.amount[1]
             b1 == Put(b, parsed.from, NumSub(Get(b, parsed.from), amount))
             b2 == IF Falsy(b1, parsed.to) THEN Put(b1, parsed.to, 0) ELSE b1
             b3 == Put(b2, parsed.to, NumAdd(b2[parsed.to], amount))
         IN  IF Falsy(b, parsed.from) \/ NumLess(b[parsed.from], amount)
             THEN <<Assign(b1), Throw("Insufficient balance")>>
             ELSE <<Assign(b3), Call(sendNotice("Transfer OK", parsed.from, parsed.to, amount))>>

p1_processTransfer(b, parsed) ==
    IF parsed.from = Undefined \/ parsed.to = Undefined \/ parsed.amount = <<>>
    THEN <<Throw("Missing 'from', 'to' or 'amount' in transfer input")>>
    ELSE IF Falsy(b, parsed.from) \/ NumLess(b[parsed.from], parsed.amount[1])
    THEN <<Throw("Insufficient balance")>>
    ELSE LET amount == parsed.amount[1]
             b1 == Put(b, parsed.from, NumSub(b[parsed.from], amount))
             b2 == IF Falsy(b1, parsed.to) THEN Put(b1, parsed.to, 0) ELSE b1
             b3 == Put(b2, parsed.to, NumAdd(b2[parsed.to], amount))
         IN  <<Assign(b3), Call(sendNotice("Transfer OK", parsed.from, parsed.to, amount))>>

p1_AdvanceSteps(b, j) ==
    IF j.t = "notjson" THEN <<Throw("Unexpected token in JSON")>>
    ELSE IF j.t = "null" THEN <<Throw("Cannot read properties of null")>>
    ELSE IF j.action = "deposit" THEN p1_processDeposit(b, j)
    ELSE IF j.action = "transfer" THEN p1_processTransfer(b, j)
    ELSE <<>>

p1_handleAdvance(b, p, fails) == TryCatchReport(b, p1_AdvanceSteps(b, p.json), fails)

p1_handleInspect(b, p, fails) == TryCatchSilent(b, InspectSteps(b, p.json, ""), fails)

(***************************************************************************)
(* The request loop.  pc is where mainLoop stands:                         *)
(*   "finish"   about to POST /finish at the top of the loop               *)
(*   "wait"     the host answered 202, the loop sleeps                     *)
(*   "retry"    the sleep is over, about to POST /finish again             *)
(*   "finish2"  part_001 only: about to POST the trailing /finish          *)
(*   "crashed"  an exception left mainLoop (nothing catches it)            *)
(* One action is one /finish call together with everything the loop does   *)
(* with its answer: the handler runs to completion inside the action.      *)
(* sent is the status the last /finish call carried, nInputs the number of *)
(* requests the host has handed out, lost how many of them no handler and  *)
(* no branch of the loop ever looked at.                                   *)
(***************************************************************************)
\* the host calls that throw: none, one call, or one call and the one after it
FailSets == {{}} \cup {{k} : k \in 1..(MaxCalls - 1)} \cup {{k, k + 1} : k \in 1..(MaxCalls - 1)}

Init == /\ variant \in Variants
        /\ balances = EmptyLedger
        /\ prev = EmptyLedger
        /\ req = NoRequest
        /\ outs = <<>>
        /\ status = "accept"
        /\ hostFailed = FALSE
        /\ nInputs = 0
        /\ pc = "finish"
        /\ resultStatus = "accept"
        /\ sent = "none"
        /\ lost = 0

\* body of the /finish call at the top of the loop
FinishStatus == IF variant = "part_001" THEN "accept" ELSE resultStatus

\* where the loop goes once the request is dealt with
AfterHandling == IF variant = "part_001" THEN "finish2" ELSE "finish"

Polling == pc \in {"finish", "retry"}

\* the loop is at its /finish call and the host has inputs left
Running == Polling /\ nInputs < MaxInputs

Handled(r, o) == /\ req' = r
                 /\ prev' = balances
                 /\ balances' = o.bal
                 /\ outs' = o.outs
                 /\ status' = o.status
                 /\ hostFailed' = o.failed
                 /\ nInputs' = nInputs + 1
                 /\ sent' = FinishStatus
                 /\ resultStatus' = IF o.status = "throw" THEN resultStatus ELSE o.status
                 /\ pc' = IF o.status = "throw" THEN "crashed" ELSE AfterHandling
                 /\ UNCHANGED <<variant, lost>>

\* the handler of the running variant
HandleAdvance(r, fails) ==
    CASE variant = "index" -> index_handleAdvance(balances, r.payload, fails)
      [] variant = "part_000" -> p0_handleAdvance(balances, r.payload, fails)
      [] OTHER -> p1_handleAdvance(balances, r.payload, fails)

HandleInspect(r, fails) ==
    CASE variant = "index" -> index_handleInspect(balances, r.payload, fails)
      [] variant = "part_000" -> p0_handleInspect(balances, r.payload, fails)
      [] OTHER -> p1_handleInspect(balances, r.payload, fails)

\* failSets: the ways the host may fail while the request is handled
Advance(r, failSets) ==
    /\ Running /\ r.type = "advance_state"
    /\ \E o \in {HandleAdvance(r, fails) : fails \in failSets} : Handled(r, o)

Inspect(r, failSets) ==
    /\ Running /\ r.type = "inspect_state"
    /\ \E o \in {HandleInspect(r, fails) : fails \in failSets} : Handled(r, o)

\* a loop whose else branch answers an unknown request_type with reject
UnknownType_Reject(r) ==
    /\ Running /\ r.type \notin {"advance_state", "inspect_state"}
    /\ req' = r
    /\ prev' = balances
    /\ outs' = <<>>
    /\ hostFailed' = FALSE
    /\ nInputs' = nInputs + 1
    /\ sent' = FinishStatus
    /\ resultStatus' = "reject"
    /\ pc' = AfterHandling
    /\ UNCHANGED <<variant, balances, status, lost>>

\* a request_type that is neither advance_state nor inspect_state: logged only
UnknownType(r) ==
    /\ Running /\ r.type \notin {"advance_state", "inspect_state"}
    /\ req' = r
    /\ prev' = balances
    /\ outs' = <<>>
    /\ hostFailed' = FALSE
    /\ nInputs' = nInputs + 1
    /\ sent' = FinishStatus
    /\ resultStatus' = IF variant = "part_001" THEN "accept" ELSE resultStatus
    /\ pc' = AfterHandling
    /\ UNCHANGED <<variant, balances, status, lost>>

\* the host answers 202: no input available
NoInput == /\ Polling
           /\ pc' = "wait"
           /\ sent' = FinishStatus
           /\ UNCHANGED <<variant, balances, prev, req, outs, status, hostFailed, nInputs,
                          resultStatus, lost>>

\* the one-second sleep ends and the loop continues
Retry == /\ pc = "wait"
         /\ pc' = "retry"
         /\ UNCHANGED <<variant, balances, prev, req, outs, status, hostFailed, nInputs,
                        resultStatus, sent, lost>>

\* part_001: the trailing /finish carries the handler's status; its answer,
\* the next request when the host has one (got), is not read
Finalize(got) ==
    /\ pc = "finish2"
    /\ sent' = resultStatus
    /\ pc' = "finish"
    /\ IF got THEN nInputs < MaxInputs /\ nInputs' = nInputs + 1 /\ lost' = lost + 1
              ELSE UNCHANGED <<nInputs, lost>>
    /\ UNCHANGED <<variant, balances, prev, req, outs, status, hostFailed, resultStatus>>

\* the fetch of /finish throws: mainLoop has no try/catch
FinishFails == /\ pc \in {"finish", "retry", "finish2"}
               /\ pc' = "crashed"
               /\ UNCHANGED <<variant, balances, prev, req, outs, status, hostFailed, nInputs,
                              resultStatus, sent, lost>>

Next == \/ \E r \in RequestsOf[variant] :
               \/ Advance(r, FailSets)
               \/ Inspect(r, FailSets)
               \/ UnknownType(r)
        \/ NoInput
        \/ Retry
        \/ \E got \in BOOLEAN : Finalize(got)
        \/ FinishFails

Spec == Init /\ [][Next]_vars

\* the run in which the host answers every call
NextHostUp == \/ \E r \in RequestsOf[variant] :
                     /\ nInputs < MaxLiveInputs
                     /\ \/ Advance(r, {{}})
                        \/ Inspect(r, {{}})
                        \/ UnknownType(r)
              \/ NoInput
              \/ Retry
              \/ \E got \in BOOLEAN : (got => nInputs < MaxLiveInputs) /\ Finalize(got)

\* the process is the only thread and is always scheduled; the host always answers:
\* a pending POST /finish gets its answer (a 202 unless a request arrives first),
\* and the 1 s sleep ends
LiveSpec == /\ Init /\ [][NextHostUp]_vars
            /\ WF_vars(NoInput) /\ WF_vars(Retry) /\ WF_vars(Finalize(FALSE))

(***************************************************************************)
(* Vocabulary of the properties.  req is the input handled last, prev the  *)
(* ledger when it was received, outs what the host received while it was   *)
(* handled, status what the handler returned.                              *)
(***************************************************************************)
IsAdvance == req.type = "advance_state"

IsInspect == req.type = "inspect_state"

J == req.payload.json

\* the host answered every call made while the input was handled
HostOk == ~hostFailed

OutsOf(kind) == {i \in DOMAIN outs : outs[i].kind = kind}

RECURSIVE Pow(_, _)
Pow(x, n) == IF n = 0 THEN 1 ELSE x * Pow(x, n - 1)

RECURSIVE WeightedSum(_, _)
WeightedSum(q, i) == IF i > Len(q) THEN 0
                     ELSE q[i] * Pow(BYTE_BASE, Len(q) - i) + WeightedSum(q, i + 1)

\* the unsigned integer a big-endian byte string denotes
AmountOf(q) == WeightedSum(q, 1)

ErrorReport(e) == sendReport("Error", "", e, 0)

IsTransfer == /\ variant = "part_001" /\ IsAdvance /\ J.t = "obj" /\ J.action = "transfer"
              /\ J.from # Undefined /\ J.to # Undefined /\ J.amount # <<>>

(***************************************************************************)
(* C1.  Every balance stored in the ledger is >= 0, whatever Advance and   *)
(* Inspect inputs were handled.                                            *)
(***************************************************************************)
C1_BalancesNonNegative == \A k \in DOMAIN balances : balances[k] >= 0

(***************************************************************************)
(* C2.  Transfer atomicity.  A transfer whose 'from' balance is below the  *)
(* amount changes no balance and creates no key; when the host answers,    *)
(* exactly one report "Insufficient balance" and no notice is emitted and  *)
(* the handler returns reject.                                             *)
(***************************************************************************)
C2_TransferAtomicity ==
    (IsTransfer /\ Get(prev, J.from) < J.amount[1]) =>
        /\ balances = prev
        /\ HostOk => /\ outs = <<ErrorReport("Insufficient balance")>>
                     /\ status = "reject"

C2_Witness == /\ IsTransfer /\ Get(prev, J.from) < J.amount[1] /\ Get(prev, J.from) > 0
              /\ ~Has(prev, J.to) /\ HostOk /\ status = "reject"

(***************************************************************************)
(* C3.  A transfer with all fields present fails with "Insufficient        *)
(* balance" exactly when balance[from] < amount; otherwise it debits       *)
(* 'from', credits 'to', emits one notice "Transfer OK" and returns accept.*)
(***************************************************************************)
TransferResult(b, f, t, n) ==
    LET b1 == Put(b, f, Get(b, f) - n) IN Put(b1, t, Get(b1, t) + n)

C3_TransferOutcome ==
    (IsTransfer /\ HostOk) =>
        IF Get(prev, J.from) < J.amount[1]
        THEN status = "reject" /\ outs = <<ErrorReport("Insufficient balance")>>
        ELSE /\ status = "accept"
             /\ outs = <<sendNotice("Transfer OK", J.from, J.to, J.amount[1])>>
             /\ \A k \in (DOMAIN prev) \cup {J.from, J.to} :
                    Get(balances, k) = Get(TransferResult(prev, J.from, J.to, J.amount[1]), k)

\* where the code departs from C3 on numbers: a 'from' balance that is 0 or absent
\* and an amount <= 0
C3_Divergence == (/\ IsTransfer /\ HostOk /\ ~(Falsy(prev, J.from) /\ J.amount[1] <= 0)
                  /\ J.amount # <<NaN>> /\ \A k \in DOMAIN prev : prev[k] # NaN) =>
                     C3_TransferOutcome

(***************************************************************************)
(* Settle: the part_000 action {win, loss} with two address texts.         *)
(***************************************************************************)
IsSettle == /\ variant = "part_000" /\ IsAdvance /\ J.t = "obj"
            /\ isAddress(J.win) /\ isAddress(J.loss)

Winner == getAddress(J.win)

Loser == getAddress(J.loss)

C5_SettleZeroBalance ==
    (IsSettle /\ Get(prev, Loser) = 0) =>
        /\ balances = prev
        /\ OutsOf("voucher") = {} /\ OutsOf("notice") = {}
        /\ HostOk => /\ outs = <<sendReport("Loser has no balance to transfer", Loser, "", 0)>>
                     /\ status = "accept"

C5_Witness == /\ IsSettle /\ HostOk /\ status = "accept"
              /\ ~Has(prev, Loser) /\ ~Has(prev, Winner) /\ Winner # Loser
              /\ Len(outs) = 1 /\ outs[1].kind = "report"

(***************************************************************************)
(* C6.  Every voucher the host receives was sent while a settle was being  *)
(* handled, is addressed to the winner and carries the loser's balance at  *)
(* the time the input arrived, which is > 0.                               *)
(***************************************************************************)
C6_VouchersOnlyFromSettle ==
    \A i \in OutsOf("voucher") :
        /\ IsSettle
        /\ outs[i].x = Winner
        /\ AmountOf(outs[i].payload) = Get(prev, Loser)
        /\ Get(prev, Loser) > 0

C6_Witness == /\ OutsOf("voucher") = {1} /\ IsSettle
              /\ AmountOf(outs[1].payload) = BYTE_BASE + 1
              /\ prev[Loser] = BYTE_BASE + 1

(***************************************************************************)
(* Payload classification, as the host can observe it.                     *)
(***************************************************************************)
DepositParseErrors ==
    {"Error parsing deposit payload: Payload too short for a deposit.",
     "Error parsing deposit payload: Invalid deposit payload: Address extraction failed.",
     "Error parsing deposit payload: Cannot convert 0x to a BigInt"}

\* the input went down the binary-deposit path of part_000
ViaBinaryDeposit ==
    /\ variant = "part_000"
    /\ \E i \in DOMAIN outs :
          \/ outs[i].kind = "notice" /\ outs[i].tag = "Deposit OK"
          \/ outs[i].kind = "report" /\ outs[i].tag = "Error" /\ outs[i].y \in DepositParseErrors

\* the input was dispatched as a JSON action (settle, transfer, JSON deposit, unrecognized)
ViaJsonAction ==
    \E i \in DOMAIN outs :
       \/ outs[i].kind = "voucher"
       \/ outs[i].tag \in {"Voucher issued", "Transfer OK", "Loser has no balance to transfer",
                           "Unrecognized JSON structure"}
       \/ variant = "part_001" /\ outs[i].tag = "Deposit OK"
       \/ outs[i].tag = "Error" /\ outs[i].y \in {"Insufficient balance", "Address is invalid",
                                                  "Missing 'sender' or 'amount' in deposit input",
                                                  "Missing 'from', 'to' or 'amount' in transfer input"}

HasClassifier == variant \in {"part_000", "part_001"}

(***************************************************************************)
(* C7.  An Advance payload that parses as JSON (object, number, string,    *)
(* boolean, array or null) is never decoded as a binary deposit, and one   *)
(* that does not parse is never dispatched as a JSON action.               *)
(***************************************************************************)
C7_Disambiguation ==
    (HasClassifier /\ IsAdvance) =>
        /\ J.t # "notjson" => (~ViaBinaryDeposit /\ (variant = "part_000" /\ J.t # "obj" => balances = prev))
        /\ J.t = "notjson" => ~ViaJsonAction

\* the half of C7 the code keeps: non-JSON is never a JSON action, JSON objects never a deposit
C7_ObjectsAndBinary ==
    (HasClassifier /\ IsAdvance) =>
        /\ J.t \in {"obj", "arr"} => ~ViaBinaryDeposit
        /\ J.t = "notjson" => ~ViaJsonAction

(***************************************************************************)
(* C8.  A JSON Advance payload of no recognized shape leaves the ledger    *)
(* unchanged, emits exactly one report "Unrecognized JSON structure", no   *)
(* notice and no voucher, and the handler returns accept.                  *)
(***************************************************************************)
UnrecognizedShape == /\ J.t # "notjson"
                     /\ ~(J.win # Undefined /\ J.loss # Undefined)
                     /\ J.action \notin {"deposit", "transfer"}

C8_UnrecognizedReported ==
    (HasClassifier /\ IsAdvance /\ UnrecognizedShape /\ HostOk) =>
        /\ balances = prev
        /\ outs = <<sendReport("Unrecognized JSON structure", "", "", 0)>>
        /\ status = "accept"

\* what the code does keep: part_000 reports JSON objects of no known shape
C8_ObjectsReported ==
    (variant = "part_000" /\ IsAdvance /\ UnrecognizedShape /\ J.t \in {"obj", "arr"} /\ HostOk) =>
        /\ balances = prev
        /\ outs = <<sendReport("Unrecognized JSON structure", "", "", 0)>>
        /\ status = "accept"

(***************************************************************************)
(* C9.  A non-JSON Advance payload shorter than 52 bytes is rejected: one  *)
(* error report, no notice, no balance change, status reject.              *)
(***************************************************************************)
IsShortBinary == /\ variant \in {"index", "part_000"} /\ IsAdvance
                 /\ J.t = "notjson" /\ req.payload.len < DEPOSIT_BYTES

C9_ShortPayloadRejected ==
    (IsShortBinary /\ HostOk) =>
        /\ status = "reject"
        /\ Len(outs) = 1 /\ outs[1].kind = "report" /\ outs[1].tag = "Error"
        /\ balances = prev

\* part_000 alone keeps C9
C9_ShortPayloadRejected_part_000 == variant = "part_000" => C9_ShortPayloadRejected

(***************************************************************************)
(* C10.  A binary deposit payload of at least 52 bytes with address bytes  *)
(* R and big-endian amount A adds exactly A to balance[R] (creating the    *)
(* key if absent), changes no other balance, emits exactly one notice      *)
(* "Deposit OK" with R and the new balance and returns accept; a balance   *)
(* query reports the balance the ledger holds.                             *)
(***************************************************************************)
IsBinaryDeposit == /\ IsAdvance /\ req.payload.len >= DEPOSIT_BYTES
                   /\ \/ variant = "index"
                      \/ variant = "part_000" /\ J.t = "notjson"

Recipient == Checksummed(req.payload.addr)

IsBalanceQuery == /\ IsInspect /\ variant \in {"index", "part_000"}
                  /\ J.t = "obj" /\ J.action = "balance" /\ J.user # Undefined

C10_BinaryDeposit ==
    /\ (IsBinaryDeposit /\ HostOk) =>
          /\ balances = Put(prev, Recipient, Get(prev, Recipient) + AmountOf(req.payload.amt))
          /\ outs = <<sendNotice("Deposit OK", Recipient, "",
                                 Get(prev, Recipient) + AmountOf(req.payload.amt))>>
          /\ status = "accept"
    /\ (IsBalanceQuery /\ HostOk) =>
          /\ outs = <<sendReport("Balance of", J.user, "wei", Get(balances, J.user))>>
          /\ status = "accept"

C10_Witness == /\ IsBinaryDeposit /\ HostOk /\ variant = "part_000" /\ status = "accept"
               /\ req.payload.amt = <<1, 0>> /\ Recipient = "0xA1"
               /\ Has(prev, "0xA1") /\ prev["0xA1"] = 1 /\ balances["0xA1"] = BYTE_BASE + 1
               /\ Has(prev, "0xA2") /\ balances["0xA2"] = prev["0xA2"]

(***************************************************************************)
(* C11.  Inspect is read-only: whatever the payload of an Inspect request, *)
(* the ledger after handling it is the ledger before, keys included, and   *)
(* no notice and no voucher is emitted.                                    *)
(***************************************************************************)
C11_InspectReadOnly ==
    IsInspect => /\ balances = prev
                 /\ OutsOf("notice") = {} /\ OutsOf("voucher") = {}

C11_Witness == /\ IsInspect /\ J.action = "balance" /\ J.user = "0xa1"
               /\ Has(prev, "0xA1") /\ prev["0xA1"] > 0 /\ ~Has(balances, "0xa1")
               /\ Len(outs) = 1 /\ status = "accept"

(***************************************************************************)
(* C12.  An Inspect request {action:"balance", user: U} yields exactly one *)
(* report "Balance of U = N", N the ledger's balance of U (0 when U was    *)
(* never credited), and accept; an Inspect request whose JSON matches no   *)
(* query shape yields no report and accept.                                *)
(***************************************************************************)
IsQueryShape == J.t = "obj" /\ J.action = "balance" /\ J.user # Undefined

C12_BalanceReport ==
    (IsInspect /\ HostOk /\ J.t # "notjson") =>
        /\ status = "accept"
        /\ IF IsQueryShape
           THEN /\ Len(outs) = 1
                /\ outs[1].kind = "report" /\ outs[1].tag = "Balance of"
                /\ outs[1].x = J.user /\ outs[1].n = Get(balances, J.user)
           ELSE outs = <<>>

\* the code keeps C12 for every JSON value but null
C12_BalanceReport_NonNull == (J.t # "null") => C12_BalanceReport

(***************************************************************************)
(* C13.  Address texts that differ only in letter case name one account:   *)
(* a balance query (and a settle) naming a credited address in any case    *)
(* reads the balance stored for that address.                              *)
(***************************************************************************)
C13_CaseInsensitive ==
    /\ (IsBalanceQuery /\ HostOk /\ isAddress(J.user)) =>
          /\ Len(outs) = 1
          /\ outs[1].n = Get(balances, getAddress(J.user))
    /\ (IsSettle /\ HostOk /\ Get(prev, getAddress(J.loss)) > 0) =>
          /\ OutsOf("voucher") = {1}
          /\ AmountOf(outs[1].payload) = Get(prev, getAddress(J.loss))

\* settle does canonicalise the texts it is given
C13_SettleCaseInsensitive ==
    (IsSettle /\ HostOk /\ Get(prev, getAddress(J.loss)) > 0) =>
          /\ OutsOf("voucher") = {1}
          /\ AmountOf(outs[1].payload) = Get(prev, getAddress(J.loss))

(***************************************************************************)
(* C14.  Every failure while one input is handled (malformed Inspect       *)
(* payload, payload too short, invalid address, insufficient balance,      *)
(* missing field) is caught in the handler: exactly one report describing  *)
(* the error, status reject, and the loop goes on to its next /finish.     *)
(***************************************************************************)
\* the inputs on which the handler's try block throws
FailureCase ==
    \/ IsInspect /\ J.t \in {"notjson", "null"}
    \/ IsAdvance /\ variant = "index" /\ req.payload.len <= ADDRESS_BYTES
    \/ IsAdvance /\ variant = "part_000" /\ ~IsJsonObject(J) /\ req.payload.len < DEPOSIT_BYTES
    \/ IsAdvance /\ variant = "part_000" /\ J.t = "obj"
          /\ J.win # Undefined /\ J.loss # Undefined /\ ~(isAddress(J.win) /\ isAddress(J.loss))
    \/ IsAdvance /\ variant = "part_001" /\ J.t \in {"notjson", "null"}
    \/ IsAdvance /\ variant = "part_001" /\ J.t = "obj" /\ J.action = "deposit"
          /\ (J.sender = Undefined \/ J.amount = <<>>)
    \/ IsAdvance /\ variant = "part_001" /\ J.t = "obj" /\ J.action = "transfer"
          /\ (J.from = Undefined \/ J.to = Undefined \/ J.amount = <<>>)
    \/ IsTransfer /\ (Falsy(prev, J.from) \/ prev[J.from] < J.amount[1])

C14_FailuresReported ==
    (FailureCase /\ HostOk) =>
        /\ Len(outs) = 1 /\ outs[1].kind = "report" /\ outs[1].tag = "Error"
        /\ status = "reject"      \* the handler returned: nothing escaped to the loop

\* every handler but part_001's handleInspect keeps C14
C14_FailuresReported_Others == (variant = "part_001" /\ IsInspect) \/ C14_FailuresReported

\* part_001's handleInspect included, a failure is answered with reject
C14_FailuresRejected ==
    (FailureCase /\ HostOk) => (status = "reject" /\ balances = prev)

(***************************************************************************)
(* C15.  Finish-status protocol: the first POST /finish carries "accept";  *)
(* every later one carries the status returned by the handler of the most  *)
(* recently handled input; after a 202 the next /finish carries the same   *)
(* status as the one before.                                               *)
(***************************************************************************)
\* a step in which the loop posts to /finish and the host answers
FinishCallStep ==
    /\ pc \in {"finish", "retry", "finish2"}
    /\ ~(pc' = "crashed" /\ nInputs' = nInputs)

C15_FinishStatus ==
    [][FinishCallStep => /\ sent' = status
                         /\ (pc = "retry" => sent' = sent)]_vars

\* index.js and part_000 follow the protocol
C15_FinishStatus_SingleCall ==
    [][(FinishCallStep /\ variant # "part_001") =>
            /\ sent' = status
            /\ (pc = "retry" => sent' = sent)]_vars

(***************************************************************************)
(* C16.  One input at a time, none lost: every request the host hands out  *)
(* in answer to a /finish is looked at by the loop and dispatched before   *)
(* the next /finish is posted.                                             *)
(***************************************************************************)
C16_NoRequestLost == lost = 0

\* a loop that posts to /finish once per iteration loses nothing
C16_NoRequestLost_SingleCall == (variant # "part_001") => lost = 0

\* C17 (two executions fed the same inputs end in the same ledger and the
\* same outputs) relates two behaviours; the handlers are operators of the
\* ledger and the payload, so no formula over one behaviour states it.

(***************************************************************************)
(* C18.  The loop never stops on its own: as long as the host answers each *)
(* call, after a 202, and after any input of any request_type, valid or    *)
(* not, the program posts to /finish again.                                *)
(***************************************************************************)
C18_LoopNeverStops == []<><<FinishCallStep>>_vars

\* a rejected input, then one of unknown request_type, then a 202: the loop is
\* about to post to /finish once more
C18_Witness == /\ pc = "retry" /\ status = "reject"
               /\ req.type = "other_state" /\ nInputs >= 2

(***************************************************************************)
(* C19.  Output ordering: the notices, reports and vouchers of an input    *)
(* are all sent while that input is being handled, before the POST /finish *)
(* that carries its status (no /finish step sends an output), and within a *)
(* settle the voucher is sent before the "Voucher issued" notice.          *)
(***************************************************************************)
VoucherFirst ==
    \A i, k \in 1..Len(outs) :
        (outs[i].kind = "voucher" /\ outs[k].tag = "Voucher issued") => i < k

C19_OutputOrder ==
    [][/\ (outs' # outs) => (Polling /\ nInputs' = nInputs + 1 /\ req' # NoRequest)
       /\ (nInputs' = nInputs + 1 /\ lost' = lost /\ req'.type # "other_state" /\ pc' # "crashed")
             => (pc' = AfterHandling /\ resultStatus' = status')
       /\ VoucherFirst']_vars

C19_Witness == /\ IsSettle /\ HostOk /\ pc = "finish" /\ resultStatus = "accept"
               /\ Len(outs) = 2
               /\ outs[1].kind = "voucher" /\ outs[2].tag = "Voucher issued"

(***************************************************************************)
(* C20.  Reject implies no state change: an Advance input whose handler    *)
(* returns reject leaves every balance as it was before the input, also    *)
(* when what failed was the sending of a notice or of a voucher.           *)
(***************************************************************************)
C20_RejectNoChange == (IsAdvance /\ status = "reject") => balances = prev

\* a reject that no failed host call caused leaves the ledger alone
C20_RejectNoChange_HostUp == (IsAdvance /\ status = "reject" /\ HostOk) => balances = prev

(***************************************************************************)
(* C21.  Value conservation in the deposit/settle variant (part_000): the  *)
(* sum of the ledger plus the amounts of the vouchers emitted equals the   *)
(* amounts credited by deposits.  Stated per input, which gives the sum    *)
(* over any sequence by induction from the empty ledger: after an input,   *)
(* ledger total + vouchers of this input = ledger total before + amount    *)
(* this input deposited; a settle pays out, in its voucher plus what the   *)
(* ledger retains, exactly what the ledger held.                           *)
(***************************************************************************)
RECURSIVE SumOver(_, _)
SumOver(b, S) == IF S = {} THEN 0
                 ELSE LET k == CHOOSE x \in S : TRUE
                      IN  b[k] + SumOver(b, S \ {k})

Total(b) == SumOver(b, DOMAIN b)

RECURSIVE VoucherSum(_)
VoucherSum(I) == IF I = {} THEN 0
                 ELSE LET i == CHOOSE x \in I : TRUE
                      IN  AmountOf(outs[i].payload) + VoucherSum(I \ {i})

\* what the input deposits: the big-endian amount of a binary deposit payload
Deposited == IF /\ IsAdvance /\ J.t \notin {"obj", "arr"}
                /\ req.payload.len >= DEPOSIT_BYTES
             THEN AmountOf(req.payload.amt) ELSE 0

C21_ValueConservation ==
    (variant = "part_000") =>
        /\ Total(balances) + VoucherSum(OutsOf("voucher")) = Total(prev) + Deposited
        /\ IsSettle => /\ VoucherSum(OutsOf("voucher")) <= Total(prev)
                       /\ Cardinality(OutsOf("voucher")) <= 1

C21_Witness == /\ IsSettle /\ status = "accept" /\ OutsOf("voucher") = {1}
               /\ Total(balances) > 0 /\ Total(prev) > Total(balances)

(***************************************************************************)
(* C22.  A successful transfer conserves the total: the sum of all         *)
(* balances is the same before and after, every balance other than those   *)
(* of 'from' and 'to' is unchanged, and a transfer with from = to and      *)
(* sufficient balance leaves that balance unchanged.                       *)
(***************************************************************************)
TransferDone == IsTransfer /\ status = "accept"

C22_TransferConserves ==
    TransferDone =>
        /\ Total(balances) = Total(prev)
        /\ \A k \in (DOMAIN prev) \cup (DOMAIN balances) :
               (k \notin {J.from, J.to}) => (Has(prev, k) /\ Has(balances, k) /\ balances[k] = prev[k])
        /\ (J.from = J.to) => balances[J.from] = prev[J.from]

\* a transfer of a numeric amount over a ledger of numbers conserves the total
C22_NumericTransferConserves ==
    (J.amount # <<NaN>> /\ \A k \in DOMAIN prev : prev[k] # NaN) => C22_TransferConserves

\* a transfer never touches a third account
C22_OthersUnchanged ==
    TransferDone =>
        \A k \in (DOMAIN prev) \cup (DOMAIN balances) :
            (k \notin {J.from, J.to}) => (Has(prev, k) /\ Has(balances, k) /\ balances[k] = prev[k])

(***************************************************************************)
(* C23.  A request whose request_type is neither "advance_state" nor       *)
(* "inspect_state" is handled by no handler: the ledger is unchanged, no   *)
(* notice, report or voucher is emitted, and the next POST /finish carries *)
(* the status the loop held before the request: the previous input's       *)
(* status in index.js and part_000, "accept" in part_001.                  *)
(***************************************************************************)
\* the step in which the loop receives a request of unknown type
UnknownRequestStep == /\ req'.type \notin {"none", "advance_state", "inspect_state"}
                      /\ nInputs' = nInputs + 1 /\ lost' = lost

C23_UnknownTypeIgnored ==
    [][/\ UnknownRequestStep =>
             /\ balances' = balances /\ outs' = <<>>
             /\ status' = status /\ pc' # "crashed"
       /\ (req.type \notin {"none", "advance_state", "inspect_state"} /\ FinishCallStep) =>
             sent' = IF variant = "part_001" THEN "accept" ELSE status]_vars

\* a rejected input, an unknown request, and the /finish after it carried reject
C23_Witness == /\ variant = "part_000" /\ req.type = "other_state"
               /\ status = "reject" /\ sent = "reject" /\ pc = "wait"
               /\ balances = prev /\ outs = <<>>

====
